---- MODULE Spec2Model ----
(***************************************************************************)
(* A model of SmartQuiz's grading core (quizcore.py): the exam loader and  *)
(* validator load_exam / validate_exam, the per-question grader            *)
(* _check_question_answer and the scorer grade_exam; and of its            *)
(* command-line runner (quiz_runner.py): run_exam, parse_answer_input and  *)
(* grade_exam_by_index.                                                    *)
(*                                                                         *)
(* A Python str is a sequence of one-character strings, so that strip()    *)
(* and lower() are computed and not assumed.  A parsed JSON object is a    *)
(* function from its keys to its values: d[k] raises KeyError when k is    *)
(* not in DOMAIN d, d.get(k, default) does not.                            *)
(***************************************************************************)
EXTENDS Integers, Sequences, FiniteSets, TLC

VARIABLES
    pc,            \* where the caller is: "start", "loaded", "failed", "answered", "graded", "checked",
                   \* and in run_exam "running", "crashed"
    doc,           \* the parsed JSON document handed to load_exam
    exam,          \* the Exam load_exam returned (NoValue before, and when it raised)
    error,         \* the exception load_exam raised (NoError when none)
    user_answers,  \* the answers mapping handed to grade_exam
    result,        \* the GradeResult grade_exam returned
    q,             \* the Question handed to _check_question_answer
    user_answer,   \* the answer handed to _check_question_answer
    is_correct,    \* what _check_question_answer returned
    idx,           \* run_exam's index into exam.questions
    cmd            \* the line run_exam last read from the terminal, as input() returned it

vars == <<pc, doc, exam, error, user_answers, result, q, user_answer, is_correct, idx, cmd>>

-----------------------------------------------------------------------------
(* Bounds of the model. *)

MaxStrLen == 2       \* characters in a string handed to the grader on its own
MaxListLen == 2      \* strings in a correct list or an answer handed to the grader on its own
MaxQuestions == 2    \* questions in a document or an exam
MaxNumber == 2       \* question numbers are 1..MaxNumber
MaxPoints == 1       \* points are -1..MaxPoints
MaxTimeLimit == 1    \* time limits are -1..MaxTimeLimit
MaxValues == 1       \* values in an answer to, or the correct list of, a question of an exam

-----------------------------------------------------------------------------
(* Strings. *)

Chars == {" ", "a", "A"}

\* All sequences over S of length at most n.
SeqsUpTo(S, n) == UNION {[1..k -> S] : k \in 0..n}

Strings == SeqsUpTo(Chars, MaxStrLen)

IsSpace(c) == c = " "

\* The capital letters of the model, with their small letters.
Capitals == [A |-> "a", G |-> "g", N |-> "n", P |-> "p", S |-> "s"]

\* str.lower() on one character.
LowerChar(c) == IF c \in DOMAIN Capitals THEN Capitals[c] ELSE c

\* str.lower()
Lower(s) == [i \in 1..Len(s) |-> LowerChar(s[i])]

RECURSIVE LStrip(_)
LStrip(s) == IF s # <<>> /\ IsSpace(Head(s)) THEN LStrip(Tail(s)) ELSE s

RECURSIVE RStrip(_)
RStrip(s) ==
    IF s # <<>> /\ IsSpace(s[Len(s)]) THEN RStrip(SubSeq(s, 1, Len(s) - 1)) ELSE s

\* str.strip(): leading and trailing whitespace removed.
Strip(s) == RStrip(LStrip(s))

\* set(list)
ToSet(l) == {l[i] : i \in 1..Len(l)}

-----------------------------------------------------------------------------
(* Question types. *)

ChoiceTypes == {"true_false", "single", "multiple"}
Types == ChoiceTypes \cup {"fill_blank", "essay"}   \* "essay": a type the grader does not know

NoValue == "none"

-----------------------------------------------------------------------------
(* The grader. *)

\* CheckChoice comparing the lists instead of the sets.
CheckChoiceAsLists(question, ua) == ua = question.correct

\* The choice branch: set(user_answer) == set(q.correct).
CheckChoice(question, ua) == ToSet(ua) = ToSet(question.correct)

\* Normalise folding case whatever case_sensitive says.
NormaliseAlwaysLower(question, s) == Lower(Strip(s))

\* The normalisation of the fill_blank branch.
Normalise(question, s) ==
    IF ~question.case_sensitive THEN Lower(Strip(s)) ELSE Strip(s)

\* The fill_blank branch: the first answer, normalised, is in the normalised correct list.
CheckFillBlank(question, ua) ==
    IF ua = <<>>
    THEN FALSE
    ELSE Normalise(question, ua[1]) \in
            {Normalise(question, question.correct[i]) : i \in 1..Len(question.correct)}

\* _check_question_answer taking an unknown type for a choice type.
CheckUnknownAsChoice(question, ua) ==
    IF question.type = "fill_blank" THEN CheckFillBlank(question, ua)
    ELSE CheckChoice(question, ua)

_check_question_answer(question, ua) ==
    IF question.type \in ChoiceTypes THEN CheckChoice(question, ua)
    ELSE IF question.type = "fill_blank" THEN CheckFillBlank(question, ua)
    ELSE FALSE

-----------------------------------------------------------------------------
(* Parsed JSON objects and Optional values. *)

\* k in d
Has(d, k) == k \in DOMAIN d

\* d.get(k, default)
Get(d, k, default) == IF Has(d, k) THEN d[k] ELSE default

\* Optional[T]: None is the empty sequence, a value x is <<x>>.
None == <<>>
Some(x) == <<x>>

\* d.get(k), an Optional
GetOptional(d, k) == IF Has(d, k) THEN Some(d[k]) ELSE None

NoError == "no error"
KeyError == "KeyError"
DuplicateQuestionNumber == "ValueError: Duplicate question number"
InvalidCorrectValue == "ValueError: correct value not found in options"
InvalidTimeLimit == "ValueError: Invalid time limit"

-----------------------------------------------------------------------------
(* The loader: load_exam and validate_exam. *)

\* options_raw = q.get("options") or []
OptionsRaw(dq) == Get(dq, "options", <<>>)

\* AnswerOption(value=o["value"], text=o["text"], description=o.get("description"))
ParseOption(o) ==
    [value |-> o["value"], text |-> o["text"], description |-> GetOptional(o, "description")]

\* Question(number=q["number"], ..., points=q.get("points", 1), ...)
ParseQuestion(dq) ==
    [number |-> dq["number"],
     type |-> dq["type"],
     question |-> dq["question"],
     options |-> [i \in 1..Len(OptionsRaw(dq)) |-> ParseOption(OptionsRaw(dq)[i])],
     correct |-> dq["correct"],
     points |-> Get(dq, "points", 1),
     case_sensitive |-> Get(dq, "case_sensitive", FALSE)]

\* The subscripts of the question loop that raise KeyError.
QuestionKeyError(dq) ==
    \/ \E i \in 1..Len(OptionsRaw(dq)) :
          ~Has(OptionsRaw(dq)[i], "value") \/ ~Has(OptionsRaw(dq)[i], "text")
    \/ \E k \in {"number", "type", "question", "correct"} : ~Has(dq, k)

\* for q in raw.get("questions", [])
QuestionsRaw(d) == Get(d, "questions", <<>>)

\* Every subscript of load_exam that raises KeyError.
LoadKeyError(d) ==
    \/ \E i \in 1..Len(QuestionsRaw(d)) : QuestionKeyError(QuestionsRaw(d)[i])
    \/ ~Has(d, "id")
    \/ ~Has(d, "title")

\* Exam(id=raw["id"], title=raw["title"], description=raw.get("description", ""), ...)
ParseExam(d) ==
    [id |-> d["id"],
     title |-> d["title"],
     description |-> Get(d, "description", <<>>),
     questions |-> [i \in 1..Len(QuestionsRaw(d)) |-> ParseQuestion(QuestionsRaw(d)[i])],
     shuffle_questions |-> Get(d, "shuffle_questions", FALSE),
     difficulty |-> GetOptional(d, "difficulty"),
     time_limit_seconds |-> GetOptional(d, "time_limit_seconds"),
     format |-> Get(d, "format", "multiple"),
     block_previous |-> Get(d, "block_previous", FALSE)]

\* DuplicateNumber with numbers.add(q.number) left out: the set stays empty.
DuplicateNumberNeverAdded(qs, i) == FALSE

\* if q.number in numbers, at the i-th question of the validation loop
DuplicateNumber(qs, i) == \E j \in 1..(i - 1) : qs[j].number = qs[i].number

\* option_values = {o.value for o in q.options}
OptionValues(question) == {question.options[i].value : i \in 1..Len(question.options)}

\* CorrectNotInOptions without the test of the type: fill_blank is not exempt.
CorrectNotInOptionsAnyType(question) ==
    \E i \in 1..Len(question.correct) : question.correct[i] \notin OptionValues(question)

\* The membership check of validate_exam on one question.
CorrectNotInOptions(question) ==
    /\ question.type \in ChoiceTypes
    /\ \E i \in 1..Len(question.correct) : question.correct[i] \notin OptionValues(question)

\* The positions at which the validation loop raises.
BadQuestions(qs) ==
    {i \in 1..Len(qs) : DuplicateNumber(qs, i) \/ CorrectNotInOptions(qs[i])}

Min(S) == CHOOSE x \in S : \A y \in S : x <= y

\* validate_exam: the error of the first question that raises, NoError when none does.
validate_exam(e) ==
    IF BadQuestions(e.questions) = {} THEN NoError
    ELSE IF DuplicateNumber(e.questions, Min(BadQuestions(e.questions)))
         THEN DuplicateQuestionNumber
         ELSE InvalidCorrectValue

\* TimeLimitRaises testing "is not None" and "<= 0": a limit of zero raises too.
TimeLimitRaisesOnZero(tl) == tl # None /\ tl[1] <= 0

\* if exam.time_limit_seconds and exam.time_limit_seconds < 0
TimeLimitRaises(tl) == tl # None /\ tl[1] # 0 /\ tl[1] < 0

\* The orders random.shuffle can leave a list in: all its permutations.
Shuffles(l) ==
    {[i \in 1..Len(l) |-> l[p[i]]] :
        p \in {f \in [1..Len(l) -> 1..Len(l)] : \A i, j \in 1..Len(l) : f[i] = f[j] => i = j}}

\* AfterShuffle without the test of shuffle_questions: every exam is shuffled.
AfterShuffleAlways(e) == {[e EXCEPT !.questions = l] : l \in Shuffles(e.questions)}

\* if exam.shuffle_questions: random.shuffle(exam.questions)
AfterShuffle(e) ==
    IF e.shuffle_questions
    THEN {[e EXCEPT !.questions = l] : l \in Shuffles(e.questions)}
    ELSE {e}

\* The end of load_exam, from the validated exam e in the order the shuffle left:
\* the time limit is checked, and e returned.
ReturnExam(e) ==
    IF TimeLimitRaises(e.time_limit_seconds)
    THEN [error |-> InvalidTimeLimit, exam |-> NoValue]
    ELSE [error |-> NoError, exam |-> e]

\* load_exam: what a call can end in, as [error, exam]; exam is NoValue when it raises.
load_exam(d) ==
    IF LoadKeyError(d) THEN {[error |-> KeyError, exam |-> NoValue]}
    ELSE IF validate_exam(ParseExam(d)) # NoError
         THEN {[error |-> validate_exam(ParseExam(d)), exam |-> NoValue]}
    ELSE {ReturnExam(e) : e \in AfterShuffle(ParseExam(d))}

-----------------------------------------------------------------------------
(* The scorer: grade_exam. *)

\* AnswerFor with the default [""]: a missing entry read as one empty string.
AnswerForBlank(answers, number) ==
    IF number \in DOMAIN answers THEN answers[number] ELSE << <<>> >>

\* user_answers.get(q.number, [])
AnswerFor(answers, number) == IF number \in DOMAIN answers THEN answers[number] ELSE <<>>

\* Gained awarding the points whatever the outcome.
GainedAlways(question, ok) == question.points

\* gained = q.points if is_correct else 0
Gained(question, ok) == IF ok THEN question.points ELSE 0

\* QuestionResult(question_number=q.number, is_correct=..., gained_points=gained, ...)
QuestionResultOf(question, ua) ==
    [question_number |-> question.number,
     is_correct |-> _check_question_answer(question, ua),
     gained_points |-> Gained(question, _check_question_answer(question, ua)),
     max_points |-> question.points,
     user_answer |-> ua,
     correct_answer |-> question.correct]

\* per_question, total_points and max_points before the loop.
GradeStart == [per_question |-> <<>>, total_points |-> 0, max_points |-> 0]

\* GradeStep putting the QuestionResult at the head of per_question.
GradeStepPrepend(acc, question, answers) ==
    [per_question |->
        <<QuestionResultOf(question, AnswerFor(answers, question.number))>> \o acc.per_question,
     total_points |->
        acc.total_points
            + QuestionResultOf(question, AnswerFor(answers, question.number)).gained_points,
     max_points |-> acc.max_points + question.points]

\* GradeStep counting max_points over the answered questions only.
GradeStepAnsweredOnly(acc, question, answers) ==
    [per_question |->
        Append(acc.per_question, QuestionResultOf(question, AnswerFor(answers, question.number))),
     total_points |->
        acc.total_points
            + QuestionResultOf(question, AnswerFor(answers, question.number)).gained_points,
     max_points |->
        acc.max_points + (IF question.number \in DOMAIN answers THEN question.points ELSE 0)]

\* One pass of the body of the loop "for q in exam.questions".
GradeStep(acc, question, answers) ==
    [per_question |->
        Append(acc.per_question, QuestionResultOf(question, AnswerFor(answers, question.number))),
     total_points |->
        acc.total_points
            + QuestionResultOf(question, AnswerFor(answers, question.number)).gained_points,
     max_points |-> acc.max_points + question.points]

\* GradeLoop looking the answers up by the position of the question, not its number.
RECURSIVE GradeLoopByPosition(_, _, _)
GradeLoopByPosition(qs, answers, acc) ==
    IF qs = <<>> THEN acc
    ELSE GradeLoopByPosition(
            Tail(qs), answers,
            [per_question |->
                Append(acc.per_question,
                       QuestionResultOf(Head(qs), AnswerFor(answers, Len(acc.per_question) + 1))),
             total_points |->
                acc.total_points
                    + QuestionResultOf(Head(qs), AnswerFor(answers, Len(acc.per_question) + 1))
                        .gained_points,
             max_points |-> acc.max_points + Head(qs).points])

\* The loop "for q in exam.questions", from the accumulators acc.
RECURSIVE GradeLoop(_, _, _)
GradeLoop(qs, answers, acc) ==
    IF qs = <<>> THEN acc
    ELSE GradeLoop(Tail(qs), answers, GradeStep(acc, Head(qs), answers))

\* (total_points / max_points * 100) if max_points > 0 else 0.0, as the fraction num/den
Percentage(total_points, max_points) ==
    IF max_points > 0
    THEN [num |-> total_points * 100, den |-> max_points]
    ELSE [num |-> 0, den |-> 1]

\* GradeResult(total_points, max_points, percentage, per_question) of the accumulators.
GradeResultOf(acc) ==
    [total_points |-> acc.total_points,
     max_points |-> acc.max_points,
     percentage |-> Percentage(acc.total_points, acc.max_points),
     per_question |-> acc.per_question]

grade_exam(e, answers) == GradeResultOf(GradeLoop(e.questions, answers, GradeStart))

-----------------------------------------------------------------------------
(* The scorer of the command-line runner: grade_exam_by_index (quiz_runner.py). *)

\* QuestionResultAt carrying the number of the question, as grade_exam does.
QuestionResultAtOwnNumber(question, index, ua) == QuestionResultOf(question, ua)

\* QuestionResult(question_number=idx + 1, is_correct=..., gained_points=gained, ...)
QuestionResultAt(question, index, ua) ==
    [question_number |-> index + 1,
     is_correct |-> _check_question_answer(question, ua),
     gained_points |-> Gained(question, _check_question_answer(question, ua)),
     max_points |-> question.points,
     user_answer |-> ua,
     correct_answer |-> question.correct]

\* One pass of the body of the loop "for idx, q in enumerate(exam.questions)".
IndexStep(acc, question, index, answers) ==
    [per_question |->
        Append(acc.per_question, QuestionResultAt(question, index, AnswerFor(answers, index))),
     total_points |->
        acc.total_points
            + QuestionResultAt(question, index, AnswerFor(answers, index)).gained_points,
     max_points |-> acc.max_points + question.points]

\* The loop "for idx, q in enumerate(exam.questions)", from index idx and accumulators acc.
RECURSIVE IndexLoop(_, _, _, _)
IndexLoop(qs, index, answers, acc) ==
    IF qs = <<>> THEN acc
    ELSE IndexLoop(Tail(qs), index + 1, answers, IndexStep(acc, Head(qs), index, answers))

grade_exam_by_index(e, answers) ==
    GradeResultOf(IndexLoop(e.questions, 0, answers, GradeStart))

-----------------------------------------------------------------------------
(* The grader on its own: every question and every answer within the bounds. *)

Text == <<"a">>

GraderQuestions ==
    [number : {1}, type : Types, question : {Text}, options : {<<>>},
     correct : SeqsUpTo(Strings, MaxListLen), points : {1},
     case_sensitive : BOOLEAN]

GraderAnswers == SeqsUpTo(Strings, MaxListLen)

InitCheck ==
    /\ pc = "start"
    /\ doc = NoValue /\ exam = NoValue /\ error = NoError
    /\ user_answers = NoValue /\ result = NoValue
    /\ q \in GraderQuestions
    /\ user_answer \in GraderAnswers
    /\ is_correct = NoValue
    /\ idx = 0 /\ cmd = <<>>

CheckAnswer ==
    /\ pc = "start"
    /\ is_correct' = _check_question_answer(q, user_answer)
    /\ pc' = "checked"
    /\ UNCHANGED <<doc, exam, error, user_answers, result, q, user_answer, idx, cmd>>

NextCheck == CheckAnswer

SpecCheck == InitCheck /\ [][NextCheck]_vars

-----------------------------------------------------------------------------
(* The documents, exams and answers within the bounds. *)

\* Option values: the one-character strings that are not a space.
Values == {s \in Strings : Len(s) = 1 /\ ~IsSpace(s[1])}

Numbers == 1..MaxNumber
Points == (0 - 1)..MaxPoints
TimeLimits == (0 - 1)..MaxTimeLimit
ValueLists == SeqsUpTo(Values, MaxValues)

\* f with the keys of g added (f wins on a common key).
Merge(f, g) == [k \in DOMAIN f \cup DOMAIN g |-> IF k \in DOMAIN f THEN f[k] ELSE g[k]]

\* A JSON object with key k when the Optional v holds a value, the empty object otherwise.
OptionalKey(k, v) == IF v = None THEN <<>> ELSE [x \in {k} |-> v[1]]

Optionals(S) == {None} \cup {Some(x) : x \in S}

\* The one option a choice question of a document offers.
Offered == <<[value |-> <<"a">>, text |-> Text]>>

\* The questions of a document.  A choice question carries options and a fill_blank
\* question case_sensitive; correct holds one value, which a choice question offers
\* ("a") or not ("A"); points are given or left to their default.
DocQuestions ==
    {Merge([number |-> n, type |-> t, question |-> Text, correct |-> <<c>>],
           Merge(OptionalKey("points", p),
                 IF t \in ChoiceTypes THEN [options |-> Offered]
                 ELSE IF t = "fill_blank" THEN [case_sensitive |-> cs]
                 ELSE <<>>)) :
        n \in Numbers, t \in Types, c \in Values, p \in Optionals(Points), cs \in BOOLEAN}

Document(qs, sh, tl) ==
    Merge([id |-> Text, title |-> Text, description |-> Text, questions |-> qs],
          Merge(OptionalKey("shuffle_questions", sh), OptionalKey("time_limit_seconds", tl)))

\* The answers mappings: some numbers, each with a list of values.
AnswerMaps == UNION {[S -> ValueLists] : S \in SUBSET Numbers}

\* The questions of an Exam built without the loader.
ExamQuestions ==
    [number : Numbers, type : Types, question : {Text}, options : {<<>>},
     correct : ValueLists, points : Points, case_sensitive : BOOLEAN]

\* Exam(id, title, description, questions), the other fields at their defaults.
ExamOf(qs) ==
    [id |-> Text, title |-> Text, description |-> Text, questions |-> qs,
     shuffle_questions |-> FALSE, difficulty |-> None, time_limit_seconds |-> None,
     format |-> "multiple", block_previous |-> FALSE]

-----------------------------------------------------------------------------
(* The program: a document is loaded, answers are collected, the exam is graded. *)

Init ==
    /\ pc = "start"
    /\ \E qs \in SeqsUpTo(DocQuestions, MaxQuestions),
          sh \in Optionals({TRUE}), tl \in Optionals(TimeLimits) :
          doc = Document(qs, sh, tl)
    /\ exam = NoValue /\ error = NoError
    /\ user_answers = NoValue /\ result = NoValue
    /\ q = NoValue /\ user_answer = NoValue /\ is_correct = NoValue
    /\ idx = 0 /\ cmd = <<>>

\* exam = load_exam(path)
LoadExam ==
    /\ pc = "start"
    /\ \E o \in load_exam(doc) :
          /\ exam' = o.exam
          /\ error' = o.error
          /\ pc' = IF o.error = NoError THEN "loaded" ELSE "failed"
    /\ UNCHANGED <<doc, user_answers, result, q, user_answer, is_correct, idx, cmd>>

\* The caller collects the answers mapping (submit_exam's form, run_exam's loop).
CollectAnswers ==
    /\ pc = "loaded"
    /\ user_answers' \in AnswerMaps
    /\ pc' = "answered"
    /\ UNCHANGED <<doc, exam, error, result, q, user_answer, is_correct, idx, cmd>>

\* result = grade_exam(exam, user_answers)
GradeExam ==
    /\ pc = "answered"
    /\ result' = grade_exam(exam, user_answers)
    /\ pc' = "graded"
    /\ UNCHANGED <<doc, exam, error, user_answers, q, user_answer, is_correct, idx, cmd>>

Next == LoadExam \/ CollectAnswers \/ GradeExam

Spec == Init /\ [][Next]_vars

-----------------------------------------------------------------------------
(* The scorer on its own: every Exam and every answers mapping within the bounds, *)
(* whether or not the loader would return the Exam.                               *)

InitGrade ==
    /\ pc = "answered"
    /\ doc = NoValue /\ error = NoError
    /\ \E qs \in SeqsUpTo(ExamQuestions, MaxQuestions) : exam = ExamOf(qs)
    /\ user_answers \in AnswerMaps
    /\ result = NoValue
    /\ q = NoValue /\ user_answer = NoValue /\ is_correct = NoValue
    /\ idx = 0 /\ cmd = <<>>

NextGrade == GradeExam

SpecGrade == InitGrade /\ [][NextGrade]_vars

-----------------------------------------------------------------------------
(* grade_exam called again on the exam and the answers mapping it has graded. *)

\* AfterGet as user_answers.pop(number, []): the entry read is taken out of the mapping.
AfterPop(answers, number) == [n \in DOMAIN answers \ {number} |-> answers[n]]

\* The answers mapping after user_answers.get(number, []): get() reads, and adds no key.
AfterGet(answers, number) == answers

\* The answers mapping after the loop "for q in exam.questions" has read it.
RECURSIVE AnswersAfterLoop(_, _)
AnswersAfterLoop(qs, answers) ==
    IF qs = <<>> THEN answers
    ELSE AnswersAfterLoop(Tail(qs), AfterGet(answers, Head(qs).number))

\* result = grade_exam(exam, user_answers), once more; no statement of grade_exam
\* assigns to the exam or to a question.
GradeExamAgain ==
    /\ pc = "graded"
    /\ result' = grade_exam(exam, user_answers)
    /\ user_answers' = AnswersAfterLoop(exam.questions, user_answers)
    /\ UNCHANGED <<pc, doc, exam, error, q, user_answer, is_correct, idx, cmd>>

NextRegrade == GradeExam \/ GradeExamAgain

SpecRegrade == InitGrade /\ [][NextRegrade]_vars

-----------------------------------------------------------------------------
(* The loader on documents of every shape: a document of one question, whole or *)
(* with one of its keys left out.                                               *)

\* The JSON object d without its key k.
Without(d, k) == [x \in DOMAIN d \ {k} |-> d[x]]

\* The keys load_exam reads from the document, from a question and from an option.
ExamKeys == {"id", "title", "description", "questions"}
QuestionKeys == {"number", "type", "question", "correct"}
OptionKeys == {"value", "text"}

\* A question of a document with one option, whatever its type.
ShapeQuestions ==
    {[number |-> 1, type |-> t, question |-> Text, correct |-> <<c>>, options |-> Offered] :
        t \in Types, c \in Values}

\* The documents left when one key is taken out of d, and d itself.
OneKeyLess(d) ==
    {d}
      \cup {Without(d, k) : k \in ExamKeys}
      \cup {[d EXCEPT !["questions"][1] = Without(@, k)] : k \in QuestionKeys}
      \cup {[d EXCEPT !["questions"][1]["options"][1] = Without(@, k)] : k \in OptionKeys}

InitShape ==
    /\ pc = "start"
    /\ \E sq \in ShapeQuestions, sh \in Optionals({TRUE}), tl \in Optionals(TimeLimits) :
          doc \in OneKeyLess(Document(<<sq>>, sh, tl))
    /\ exam = NoValue /\ error = NoError
    /\ user_answers = NoValue /\ result = NoValue
    /\ q = NoValue /\ user_answer = NoValue /\ is_correct = NoValue
    /\ idx = 0 /\ cmd = <<>>

NextShape == LoadExam

SpecShape == InitShape /\ [][NextShape]_vars

-----------------------------------------------------------------------------
(* The runner's scorer on its own: every Exam and every mapping from indices to *)
(* answers within the bounds.                                                   *)

\* The indices enumerate() can give a question, from 0.
Indices == 0..(MaxQuestions - 1)

\* The answers mappings keyed by index.
IndexAnswerMaps == UNION {[S -> ValueLists] : S \in SUBSET Indices}

InitIndex ==
    /\ pc = "answered"
    /\ doc = NoValue /\ error = NoError
    /\ \E qs \in SeqsUpTo(ExamQuestions, MaxQuestions) : exam = ExamOf(qs)
    /\ user_answers \in IndexAnswerMaps
    /\ result = NoValue
    /\ q = NoValue /\ user_answer = NoValue /\ is_correct = NoValue
    /\ idx = 0 /\ cmd = <<>>

\* result = grade_exam_by_index(exam, user_answers)
GradeExamByIndex ==
    /\ pc = "answered"
    /\ result' = grade_exam_by_index(exam, user_answers)
    /\ pc' = "graded"
    /\ UNCHANGED <<doc, exam, error, user_answers, q, user_answer, is_correct, idx, cmd>>

NextIndex == GradeExamByIndex

SpecIndex == InitIndex /\ [][NextIndex]_vars

-----------------------------------------------------------------------------
(* The command-line runner: run_exam and parse_answer_input (quiz_runner.py). *)

IndexError == "IndexError"

\* s.startswith(prefix)
StartsWith(s, prefix) == Len(s) >= Len(prefix) /\ SubSeq(s, 1, Len(prefix)) = prefix

\* The positions of s that hold the character c.
PositionsOf(s, c) == {i \in 1..Len(s) : s[i] = c}

\* _, _, rest = s.partition(c): what follows the first c of s, "" when s holds none.
RestAfter(s, c) ==
    IF PositionsOf(s, c) = {} THEN <<>>
    ELSE SubSeq(s, Min(PositionsOf(s, c)) + 1, Len(s))

\* s.split(c)
RECURSIVE Split(_, _)
Split(s, c) ==
    IF PositionsOf(s, c) = {} THEN <<s>>
    ELSE <<SubSeq(s, 1, Min(PositionsOf(s, c)) - 1)>> \o Split(RestAfter(s, c), c)

\* The decimal digits, with their values.
DigitValue == [c \in {"0", "1", "2", "3"} |-> CASE c = "0" -> 0 [] c = "1" -> 1
                                                [] c = "2" -> 2 [] c = "3" -> 3]

\* s.isdigit()
IsDigit(s) == s # <<>> /\ \A i \in 1..Len(s) : s[i] \in DOMAIN DigitValue

\* int(s), for a string of digits
RECURSIVE ToInt(_)
ToInt(s) ==
    IF s = <<>> THEN 0
    ELSE 10 * ToInt(SubSeq(s, 1, Len(s) - 1)) + DigitValue[s[Len(s)]]

\* [p.strip() for p in parts if p.strip()]
RECURSIVE StrippedParts(_)
StrippedParts(parts) ==
    IF parts = <<>> THEN <<>>
    ELSE IF Strip(Head(parts)) = <<>> THEN StrippedParts(Tail(parts))
    ELSE <<Strip(Head(parts))>> \o StrippedParts(Tail(parts))

parse_answer_input(raw, question) ==
    IF Strip(raw) = <<>> THEN <<>>
    ELSE IF question.type \in ChoiceTypes THEN StrippedParts(Split(Strip(raw), ","))
    ELSE IF question.type = "fill_blank" THEN <<Strip(raw)>>
    ELSE <<>>

\* The lines the user types: blank lines, n, p, g <k>, s, and answers.
Commands ==
    { <<>>, <<" ">>,
      <<"n">>, <<"N", " ">>, <<"p">>, <<"P">>,
      <<"g", " ", "0">>, <<"g", " ", "1">>, <<"G", " ", "2">>, <<"g", " ", "3">>,
      <<"g", " ", "a">>, <<"g", " ", " ", "1">>,
      <<"s">>, <<" ", "S">>,
      <<"a">>, <<"A", " ">>, <<"a", ",", "A">>, <<"g">> }

\* The questions of the documents the runner is started on.
RunQuestions ==
    {Merge([number |-> n, type |-> t, question |-> Text, correct |-> <<Text>>],
           IF t \in ChoiceTypes THEN [options |-> Offered] ELSE <<>>) :
        n \in Numbers, t \in {"single", "fill_blank", "essay"}}

\* The documents the runner is started on: with questions, with none, without the key.
RunDocuments ==
    {Document(qs, None, None) : qs \in SeqsUpTo(RunQuestions, MaxQuestions)}
        \cup {Without(Document(<<>>, None, None), "questions")}

InitRun ==
    /\ pc = "start"
    /\ doc \in RunDocuments
    /\ exam = NoValue /\ error = NoError
    /\ user_answers = NoValue /\ result = NoValue
    /\ q = NoValue /\ user_answer = NoValue /\ is_correct = NoValue
    /\ idx = 0 /\ cmd = <<>>

\* run_exam(exam), up to the loop: user_answers = {}; idx = 0
RunExam ==
    /\ pc = "loaded"
    /\ user_answers' = <<>>
    /\ idx' = 0
    /\ pc' = "running"
    /\ UNCHANGED <<doc, exam, error, result, q, user_answer, is_correct, cmd>>

\* exam.questions[idx] is in range: Python takes -len..len-1.
InRange(e, i) == (0 - Len(e.questions)) <= i /\ i < Len(e.questions)

\* exam.questions[idx]
QuestionAt(e, i) == IF i >= 0 THEN e.questions[i + 1] ELSE e.questions[Len(e.questions) + i + 1]

\* q = exam.questions[idx] raises IndexError, and run_exam ends with it.
RaiseIndexError ==
    /\ pc = "running"
    /\ ~InRange(exam, idx)
    /\ error' = IndexError
    /\ pc' = "crashed"
    /\ UNCHANGED <<doc, exam, user_answers, result, q, user_answer, is_correct, idx, cmd>>

\* The head of one pass of the loop: q = exam.questions[idx], and the line c is read.
ReadCommand(c) ==
    /\ pc = "running"
    /\ InRange(exam, idx)
    /\ q' = QuestionAt(exam, idx)
    /\ cmd' = Strip(c)

\* if not cmd: continue
BlankInput ==
    \E c \in Commands :
        /\ ReadCommand(c)
        /\ Strip(c) = <<>>
        /\ UNCHANGED <<pc, doc, exam, error, user_answers, result, user_answer, is_correct, idx>>

\* if cmd.lower() == "n": idx += 1 unless at the last question
NextQuestion ==
    \E c \in Commands :
        /\ ReadCommand(c)
        /\ Strip(c) # <<>>
        /\ Lower(Strip(c)) = <<"n">>
        /\ idx' = IF idx < Len(exam.questions) - 1 THEN idx + 1 ELSE idx
        /\ UNCHANGED <<pc, doc, exam, error, user_answers, result, user_answer, is_correct>>

\* if cmd.lower() == "p": idx -= 1 unless at the first question
PreviousQuestion ==
    \E c \in Commands :
        /\ ReadCommand(c)
        /\ Strip(c) # <<>>
        /\ Lower(Strip(c)) # <<"n">>
        /\ Lower(Strip(c)) = <<"p">>
        /\ idx' = IF idx > 0 THEN idx - 1 ELSE idx
        /\ UNCHANGED <<pc, doc, exam, error, user_answers, result, user_answer, is_correct>>

\* The index "g <rest>" moves to: int(rest) - 1 when rest is a number of a question,
\* the current index otherwise.
GoToTarget(e, i, rest) ==
    IF IsDigit(rest) /\ 0 <= ToInt(rest) - 1 /\ ToInt(rest) - 1 < Len(e.questions)
    THEN ToInt(rest) - 1
    ELSE i

\* if cmd.lower().startswith("g "): idx = int(rest) - 1 when that is a question
GoToQuestion ==
    \E c \in Commands :
        /\ ReadCommand(c)
        /\ Strip(c) # <<>>
        /\ Lower(Strip(c)) \notin {<<"n">>, <<"p">>}
        /\ StartsWith(Lower(Strip(c)), <<"g", " ">>)
        /\ idx' = GoToTarget(exam, idx, RestAfter(Strip(c), " "))
        /\ UNCHANGED <<pc, doc, exam, error, user_answers, result, user_answer, is_correct>>

\* if cmd.lower() == "s": break
Submit ==
    \E c \in Commands :
        /\ ReadCommand(c)
        /\ Strip(c) # <<>>
        /\ Lower(Strip(c)) \notin {<<"n">>, <<"p">>}
        /\ ~StartsWith(Lower(Strip(c)), <<"g", " ">>)
        /\ Lower(Strip(c)) = <<"s">>
        /\ pc' = "answered"
        /\ UNCHANGED <<doc, exam, error, user_answers, result, user_answer, is_correct, idx>>

\* The mapping with the entry of key k set to v.
WithEntry(answers, k, v) ==
    [x \in DOMAIN answers \cup {k} |-> IF x = k THEN v ELSE answers[x]]

\* ans = parse_answer_input(cmd, q); user_answers[idx] = ans
StoreAnswer ==
    \E c \in Commands :
        /\ ReadCommand(c)
        /\ Strip(c) # <<>>
        /\ Lower(Strip(c)) \notin {<<"n">>, <<"p">>, <<"s">>}
        /\ ~StartsWith(Lower(Strip(c)), <<"g", " ">>)
        /\ user_answers' =
              WithEntry(user_answers, idx, parse_answer_input(Strip(c), QuestionAt(exam, idx)))
        /\ UNCHANGED <<pc, doc, exam, error, result, user_answer, is_correct, idx>>

\* main: exam = load_exam(exam_path); run_exam(exam), which ends in
\* result = grade_exam_by_index(exam, user_answers).
NextRun ==
    \/ LoadExam
    \/ RunExam
    \/ RaiseIndexError
    \/ BlankInput
    \/ NextQuestion
    \/ PreviousQuestion
    \/ GoToQuestion
    \/ Submit
    \/ StoreAnswer
    \/ GradeExamByIndex

SpecRun == InitRun /\ [][NextRun]_vars

-----------------------------------------------------------------------------
(* Vocabulary of the properties, stated without the operators of the model. *)

\* The sum of f over the finite set S of its arguments.
RECURSIVE SumOver(_, _)
SumOver(f, S) ==
    IF S = {} THEN 0
    ELSE LET x == CHOOSE x \in S : TRUE IN f[x] + SumOver(f, S \ {x})

\* s contains the string v.
Contains(l, v) == \E i \in DOMAIN l : l[i] = v

\* l and m hold the same values.
SameValues(l, m) ==
    /\ \A i \in DOMAIN l : Contains(m, l[i])
    /\ \A i \in DOMAIN m : Contains(l, m[i])

Reverse(l) == [i \in 1..Len(l) |-> l[Len(l) + 1 - i]]

\* The positions of s that hold no space.
Inked(s) == {i \in DOMAIN s : s[i] # " "}

\* s without its leading and trailing spaces: from its first to its last inked position.
Trimmed(s) ==
    IF Inked(s) = {} THEN <<>>
    ELSE SubSeq(s, CHOOSE i \in Inked(s) : \A j \in Inked(s) : i <= j,
                   CHOOSE i \in Inked(s) : \A j \in Inked(s) : j <= i)

\* s with its capitals replaced by small letters.
Lowercased(s) == [i \in DOMAIN s |-> IF s[i] = "A" THEN "a" ELSE s[i]]

\* The normalisation the fill_blank rule is specified with.
Normalised(cs, s) == IF cs THEN Trimmed(s) ELSE Lowercased(Trimmed(s))

Graded == pc = "graded"
Checked == pc = "checked"

-----------------------------------------------------------------------------
(* Properties of the scorer and the grader. *)

\* C1: max_points of the GradeResult is the sum of the points of all the questions of
\* the exam, whichever questions the answers mapping has an entry for.
C1_MaxPointsIsSumOfAllPoints ==
    Graded =>
        result.max_points =
            SumOver([i \in DOMAIN exam.questions |-> exam.questions[i].points],
                    DOMAIN exam.questions)

\* C1 witness: a graded exam of two questions worth points, one of them unanswered.
C1_Witness ==
    /\ Graded
    /\ Len(exam.questions) = 2
    /\ exam.questions[1].points > 0 /\ exam.questions[2].points > 0
    /\ exam.questions[1].number \in DOMAIN user_answers
    /\ exam.questions[2].number \notin DOMAIN user_answers
    /\ result.max_points = exam.questions[1].points + exam.questions[2].points

\* C3: on a true_false, single or multiple question the grader answers true exactly when
\* the answer and correct hold the same values; reversing the answer or repeating one
\* of its entries does not change the outcome; an empty answer is correct only when
\* correct is empty.
C3_ChoiceIsSetEquality ==
    (Checked /\ q.type \in ChoiceTypes) =>
        /\ is_correct <=> SameValues(user_answer, q.correct)
        /\ _check_question_answer(q, Reverse(user_answer)) = is_correct
        /\ user_answer # <<>> =>
              _check_question_answer(q, Append(user_answer, user_answer[1])) = is_correct
        /\ user_answer = <<>> => (is_correct <=> q.correct = <<>>)

\* C3 witness: a multiple question answered correctly in another order than correct.
C3_Witness ==
    /\ Checked
    /\ q.type = "multiple"
    /\ Len(q.correct) = 2 /\ q.correct[1] # q.correct[2]
    /\ user_answer = Reverse(q.correct)
    /\ is_correct

C5_FillBlankFirstAnswerNormalised ==
    (Checked /\ q.type = "fill_blank") =>
        /\ is_correct <=>
              /\ user_answer # <<>>
              /\ \E j \in DOMAIN q.correct :
                    Normalised(q.case_sensitive, user_answer[1])
                        = Normalised(q.case_sensitive, q.correct[j])
        /\ user_answer # <<>> =>
              _check_question_answer(q, <<user_answer[1]>>) = is_correct
        /\ user_answer = <<>> => ~is_correct

\* C5 witness: a case-insensitive question whose second accepted string matches the
\* first answer only after trimming and lowercasing, the second answer matching nothing.
C5_Witness ==
    /\ Checked
    /\ q.type = "fill_blank"
    /\ ~q.case_sensitive
    /\ q.correct = << <<"A", "A">>, <<"a", " ">> >>
    /\ user_answer = << <<" ", "A">>, <<" ">> >>
    /\ is_correct

\* C6: grading is total: for every exam and every answers mapping grade_exam yields a
\* GradeResult, with one QuestionResult per question and integer totals, and a question
\* of unknown type is reported incorrect with 0 gained points whatever the answer.
C6_GradingIsTotal ==
    /\ pc = "answered" =>
          Len(grade_exam(exam, user_answers).per_question) = Len(exam.questions)
    /\ Graded =>
          /\ result.total_points \in Int /\ result.max_points \in Int
          /\ Len(result.per_question) = Len(exam.questions)
          /\ \A i \in DOMAIN exam.questions :
                /\ result.per_question[i].is_correct \in BOOLEAN
                /\ exam.questions[i].type \notin (ChoiceTypes \cup {"fill_blank"}) =>
                      /\ result.per_question[i].is_correct = FALSE
                      /\ result.per_question[i].gained_points = 0

\* C6 witness: a question of unknown type worth points, answered with its correct value.
C6_Witness ==
    /\ Graded
    /\ \E i \in DOMAIN exam.questions :
          /\ exam.questions[i].type = "essay"
          /\ exam.questions[i].points > 0
          /\ exam.questions[i].correct # <<>>
          /\ result.per_question[i].user_answer = exam.questions[i].correct
          /\ result.per_question[i].gained_points = 0

-----------------------------------------------------------------------------
(* Properties of the loader, stated on the document. *)

Loaded == pc \in {"loaded", "answered", "graded"}
Failed == pc = "failed"

\* The questions of the document that carry key k.
DocQuestionsWith(k) ==
    {i \in DOMAIN QuestionsRaw(doc) : k \in DOMAIN QuestionsRaw(doc)[i]}

\* Two questions of the document share a number.
DocRepeatsANumber ==
    \E i, j \in DocQuestionsWith("number") :
        i # j /\ QuestionsRaw(doc)[i]["number"] = QuestionsRaw(doc)[j]["number"]

\* The values the options of the i-th question of the document offer.
DocOffered(i) ==
    IF "options" \in DOMAIN QuestionsRaw(doc)[i]
    THEN {QuestionsRaw(doc)[i]["options"][k]["value"] :
            k \in DOMAIN QuestionsRaw(doc)[i]["options"]}
    ELSE {}

\* The i-th question of the document is a choice question with a correct value that
\* none of its options offers.
DocCorrectNotOffered(i) ==
    /\ QuestionsRaw(doc)[i]["type"] \in {"true_false", "single", "multiple"}
    /\ \E k \in DOMAIN QuestionsRaw(doc)[i]["correct"] :
          QuestionsRaw(doc)[i]["correct"][k] \notin DocOffered(i)

\* C7: load_exam fails whenever two questions of the document share a number, and the
\* questions of every Exam it returns have pairwise distinct numbers.
C7_DuplicateNumbersRejected ==
    /\ (pc # "start" /\ DocRepeatsANumber) => Failed
    /\ error = DuplicateQuestionNumber => DocRepeatsANumber
    /\ Loaded =>
          \A i, j \in DOMAIN exam.questions :
              exam.questions[i].number = exam.questions[j].number => i = j

\* C7 witness: a load that failed on two otherwise valid questions with one number,
\* under a valid time limit.
C7_Witness ==
    /\ Failed
    /\ error = DuplicateQuestionNumber
    /\ Len(doc["questions"]) = 2
    /\ \A i \in 1..2 : ~DocCorrectNotOffered(i)
    /\ "time_limit_seconds" \notin DOMAIN doc

\* C8: load_exam fails whenever a true_false, single or multiple question has a correct
\* value that none of its options offers, so in every Exam it returns correct is a
\* subset of the option values for those types; it raises on this account for those
\* types only, a fill_blank question is never what the membership check rejects.
C8_CorrectValuesAmongOptions ==
    /\ (pc # "start"
            /\ \E i \in DocQuestionsWith("type") \cap DocQuestionsWith("correct") :
                  DocCorrectNotOffered(i))
          => Failed
    /\ error = InvalidCorrectValue =>
          \E i \in DocQuestionsWith("type") \cap DocQuestionsWith("correct") :
              DocCorrectNotOffered(i)
    /\ Loaded =>
          \A i \in DOMAIN exam.questions :
              exam.questions[i].type \in {"true_false", "single", "multiple"} =>
                  \A k \in DOMAIN exam.questions[i].correct :
                      \E o \in DOMAIN exam.questions[i].options :
                          exam.questions[i].options[o].value = exam.questions[i].correct[k]

\* C8 witness: a load that failed on the correct value of a true_false question, beside
\* a fill_blank question without options.
C8_Witness ==
    /\ Failed
    /\ error = InvalidCorrectValue
    /\ Len(doc["questions"]) = 2
    /\ doc["questions"][1]["type"] = "fill_blank"
    /\ doc["questions"][2]["type"] = "true_false"
    /\ DocCorrectNotOffered(2)

\* C9: load_exam fails whenever time_limit_seconds is present and negative, does not
\* fail on account of the time limit when it is absent, zero or positive, and every
\* Exam it returns has time_limit_seconds absent or >= 0.
C9_NegativeTimeLimitRejected ==
    /\ (pc # "start" /\ "time_limit_seconds" \in DOMAIN doc
            /\ doc["time_limit_seconds"] < 0)
          => Failed
    /\ error = InvalidTimeLimit =>
          ("time_limit_seconds" \in DOMAIN doc /\ doc["time_limit_seconds"] < 0)
    /\ Loaded =>
          (exam.time_limit_seconds = <<>> \/ exam.time_limit_seconds[1] >= 0)

\* C9 witness: a load of valid questions that failed on the time limit.
C9_Witness ==
    /\ Failed
    /\ error = InvalidTimeLimit
    /\ doc["time_limit_seconds"] < 0
    /\ Len(doc["questions"]) = 2

\* C10: every question of every Exam load_exam returns has points >= 0.
C10_PointsNonNegative ==
    Loaded => \A i \in DOMAIN exam.questions : exam.questions[i].points >= 0

\* C2: for every Exam load_exam returns and every answers mapping,
\* 0 <= total_points <= max_points, and percentage is 0 when max_points is 0 and
\* 100 * total_points / max_points otherwise.
C2_ScoreWithinBounds ==
    Graded =>
        /\ 0 <= result.total_points
        /\ result.total_points <= result.max_points
        /\ 0 <= result.percentage.num
        /\ result.percentage.num <= 100 * result.percentage.den
        /\ result.max_points = 0 => result.percentage.num = 0
        /\ result.max_points # 0 =>
              result.percentage.num * result.max_points
                  = 100 * result.total_points * result.percentage.den

-----------------------------------------------------------------------------
(* Properties of the loader on documents that miss a field. *)

\* The document misses a field its shape lists without a default: id, title,
\* description or questions; number, type, question or correct of a question; value or
\* text of an option.
DocMissesField ==
    \/ \E k \in {"id", "title", "description", "questions"} : k \notin DOMAIN doc
    \/ /\ "questions" \in DOMAIN doc
       /\ \E i \in DOMAIN doc["questions"] :
             \/ \E k \in {"number", "type", "question", "correct"} :
                   k \notin DOMAIN doc["questions"][i]
             \/ /\ "options" \in DOMAIN doc["questions"][i]
                /\ \E o \in DOMAIN doc["questions"][i]["options"] :
                      \E k \in {"value", "text"} :
                          k \notin DOMAIN doc["questions"][i]["options"][o]

\* C11: load_exam fails with a structure error, and returns no Exam, whenever the
\* document misses a field listed without a default; no such field is replaced by a
\* default.
C11_MissingFieldRejected ==
    (pc # "start" /\ DocMissesField) => (Failed /\ error = KeyError)

-----------------------------------------------------------------------------
(* Properties of the scorer across question orders and answer keys. *)

\* The exam with its questions in the order p, a permutation of their positions.
Reordered(e, p) == [e EXCEPT !.questions = [i \in DOMAIN e.questions |-> e.questions[p[i]]]]

\* The positions of the questions of the exam that carry the number n.
Carrying(n) == {i \in DOMAIN exam.questions : exam.questions[i].number = n}

\* C12: grading does not depend on the order of the questions: graded in any other
\* order, with the same answers mapping, the exam gets the same total_points,
\* max_points and percentage, every question the same is_correct and gained_points,
\* and so does every question number that one question carries.
C12_OrderIndependent ==
    Graded =>
        \A p \in Permutations(DOMAIN exam.questions) :
            LET other == grade_exam(Reordered(exam, p), user_answers)
            IN  /\ other.total_points = result.total_points
                /\ other.max_points = result.max_points
                /\ other.percentage = result.percentage
                /\ Len(other.per_question) = Len(result.per_question)
                /\ \A i \in DOMAIN other.per_question :
                      /\ other.per_question[i].question_number
                            = result.per_question[p[i]].question_number
                      /\ other.per_question[i].is_correct
                            = result.per_question[p[i]].is_correct
                      /\ other.per_question[i].gained_points
                            = result.per_question[p[i]].gained_points
                /\ \A i \in DOMAIN other.per_question, j \in DOMAIN result.per_question :
                      (/\ other.per_question[i].question_number
                             = result.per_question[j].question_number
                       /\ Cardinality(Carrying(result.per_question[j].question_number)) = 1)
                        => /\ other.per_question[i].is_correct
                                 = result.per_question[j].is_correct
                           /\ other.per_question[i].gained_points
                                 = result.per_question[j].gained_points

\* C12 witness: two questions with different numbers and different answers, the first
\* answered correctly and the second not, graded alike in the reverse order.
C12_Witness ==
    /\ Graded
    /\ Len(exam.questions) = 2
    /\ exam.questions[1].number # exam.questions[2].number
    /\ exam.questions[1].points > 0 /\ exam.questions[2].points > 0
    /\ DOMAIN user_answers = {exam.questions[1].number, exam.questions[2].number}
    /\ user_answers[exam.questions[1].number] # user_answers[exam.questions[2].number]
    /\ result.per_question[1].is_correct
    /\ ~result.per_question[2].is_correct
    /\ LET other == grade_exam(Reordered(exam, [i \in 1..2 |-> 3 - i]), user_answers)
       IN  /\ other.total_points = result.total_points
           /\ ~other.per_question[1].is_correct
           /\ other.per_question[2].is_correct

\* The mapping by number m sends the number of every question of the exam to the answer
\* the mapping by index a holds for its position, and holds no entry for the number of a
\* question whose position a holds none for.
SendsNumbersTo(m, a) ==
    \A i \in DOMAIN exam.questions :
        IF (i - 1) \in DOMAIN a
        THEN /\ exam.questions[i].number \in DOMAIN m
             /\ m[exam.questions[i].number] = a[i - 1]
        ELSE exam.questions[i].number \notin DOMAIN m

\* C13: grade_exam_by_index, given the mapping A from positions (from 0) to answers,
\* returns the total_points, max_points, percentage and, position by position, the
\* is_correct and gained_points that grade_exam returns given the mapping that sends
\* questions[i].number to A[i]; its i-th QuestionResult (from 0) carries
\* question_number = i + 1, not the number of the question.
C13_ByIndexAgreesWithByNumber ==
    Graded =>
        /\ Len(result.per_question) = Len(exam.questions)
        /\ \A i \in DOMAIN result.per_question :
              result.per_question[i].question_number = i
        /\ \A m \in AnswerMaps :
              SendsNumbersTo(m, user_answers) =>
                  LET by_number == grade_exam(exam, m)
                  IN  /\ result.total_points = by_number.total_points
                      /\ result.max_points = by_number.max_points
                      /\ result.percentage = by_number.percentage
                      /\ \A i \in DOMAIN result.per_question :
                            /\ result.per_question[i].is_correct
                                  = by_number.per_question[i].is_correct
                            /\ result.per_question[i].gained_points
                                  = by_number.per_question[i].gained_points

\* C13 witness: an exam of questions numbered 2 and 1, the first answered correctly at
\* index 0 and the second wrongly at index 1, graded by index as grade_exam grades it
\* by number, the results numbered 1 and 2.
C13_Witness ==
    /\ Graded
    /\ Len(exam.questions) = 2
    /\ exam.questions[1].number = 2 /\ exam.questions[2].number = 1
    /\ exam.questions[1].points > 0 /\ exam.questions[2].points > 0
    /\ DOMAIN user_answers = {0, 1}
    /\ user_answers[0] # user_answers[1]
    /\ result.per_question[1].is_correct /\ ~result.per_question[2].is_correct
    /\ result.per_question[1].question_number = 1
    /\ result.per_question[2].question_number = 2
    /\ \E m \in AnswerMaps :
          /\ SendsNumbersTo(m, user_answers)
          /\ grade_exam(exam, m).total_points = result.total_points
          /\ grade_exam(exam, m).per_question[1].question_number = 2

-----------------------------------------------------------------------------
(* Properties of the scorer on unanswered questions and on the order of its results. *)

\* The positions of the questions of the exam whose number the answers mapping holds no
\* entry for.
Unanswered == {i \in DOMAIN exam.questions : exam.questions[i].number \notin DOMAIN user_answers}

\* The sum of the points of all the questions of the exam.
AllPoints ==
    SumOver([i \in DOMAIN exam.questions |-> exam.questions[i].points], DOMAIN exam.questions)

\* C15 as stated: a question whose number has no entry in the answers mapping is graded
\* with the empty answer: its QuestionResult has user_answer = [], it is reported
\* incorrect with 0 gained points, its points count in max_points, and no error is raised.
C15_UnansweredIsIncorrect ==
    Graded =>
        /\ result.max_points = AllPoints
        /\ \A i \in Unanswered :
              /\ result.per_question[i].user_answer = <<>>
              /\ result.per_question[i].is_correct = FALSE
              /\ result.per_question[i].gained_points = 0
              /\ result.per_question[i].max_points = exam.questions[i].points

\* C15 amended: a question whose number has no entry in the answers mapping is graded
\* with the empty answer: its QuestionResult has user_answer = [], its points count in
\* max_points and no error is raised; it is reported incorrect with 0 gained points
\* unless it is a true_false, single or multiple question whose correct list is empty,
\* which is reported correct and gains its points.
C15_UnansweredIsGradedAsEmpty ==
    /\ pc = "answered" =>
          \A i \in Unanswered :
              grade_exam(exam, user_answers).per_question[i].user_answer = <<>>
    /\ Graded =>
          /\ result.max_points = AllPoints
          /\ \A i \in Unanswered :
                /\ result.per_question[i].user_answer = <<>>
                /\ result.per_question[i].max_points = exam.questions[i].points
                /\ result.per_question[i].is_correct
                      = (/\ exam.questions[i].type \in {"true_false", "single", "multiple"}
                         /\ exam.questions[i].correct = <<>>)
                /\ result.per_question[i].is_correct =>
                      result.per_question[i].gained_points = exam.questions[i].points
                /\ ~result.per_question[i].is_correct =>
                      result.per_question[i].gained_points = 0

\* C15 witness: two unanswered questions worth points, a fill_blank question reported
\* incorrect and a single question with an empty correct list reported correct.
C15_Witness ==
    /\ Graded
    /\ Unanswered = {1, 2}
    /\ exam.questions[1].type = "fill_blank" /\ exam.questions[1].correct # <<>>
    /\ exam.questions[2].type = "single" /\ exam.questions[2].correct = <<>>
    /\ exam.questions[1].points > 0 /\ exam.questions[2].points > 0
    /\ result.per_question[1].user_answer = <<>> /\ result.per_question[2].user_answer = <<>>
    /\ ~result.per_question[1].is_correct /\ result.per_question[1].gained_points = 0
    /\ result.per_question[2].is_correct /\ result.per_question[2].gained_points > 0
    /\ result.max_points = exam.questions[1].points + exam.questions[2].points

-----------------------------------------------------------------------------
(* Properties of the loader on the order of the questions. *)

\* The question qn of an Exam is the i-th question of the document: its number, type,
\* prompt and correct list, and its points and case_sensitive, given or defaulted.
IsDocQuestion(qn, i) ==
    LET dq == doc["questions"][i]
    IN  /\ qn.number = dq["number"]
        /\ qn.type = dq["type"]
        /\ qn.question = dq["question"]
        /\ qn.correct = dq["correct"]
        /\ qn.points = (IF "points" \in DOMAIN dq THEN dq["points"] ELSE 1)
        /\ qn.case_sensitive
              = (IF "case_sensitive" \in DOMAIN dq THEN dq["case_sensitive"] ELSE FALSE)
        /\ Len(qn.options) = (IF "options" \in DOMAIN dq THEN Len(dq["options"]) ELSE 0)

\* The document asks for its questions to be shuffled.
DocShuffles == "shuffle_questions" \in DOMAIN doc /\ doc["shuffle_questions"]

\* The i-th question of the document repeats the number of an earlier one.
DocRepeatsEarlier(i) ==
    \E j \in 1..(i - 1) : doc["questions"][j]["number"] = doc["questions"][i]["number"]

\* The questions of the document that validation rejects.
DocRejected == {i \in DOMAIN doc["questions"] : DocRepeatsEarlier(i) \/ DocCorrectNotOffered(i)}

\* C16: the questions of the Exam load_exam returns are the questions of the document,
\* each once, in some order; in the order of the document when shuffle_questions is
\* false or absent; the questions are validated in the order of the document, before
\* any reordering, so that the error of a load that fails validation is that of the
\* first question of the document validation rejects; and a load that fails returns no
\* Exam.
C16_QuestionsArePermuted ==
    /\ (pc # "start" /\ DocRejected # {}) =>
          LET first == CHOOSE i \in DocRejected : \A j \in DocRejected : i <= j
          IN  /\ Failed
              /\ error = IF DocRepeatsEarlier(first)
                         THEN DuplicateQuestionNumber ELSE InvalidCorrectValue
    /\ Loaded =>
          /\ Len(exam.questions) = Len(doc["questions"])
          /\ \E p \in Permutations(DOMAIN doc["questions"]) :
                \A i \in DOMAIN exam.questions : IsDocQuestion(exam.questions[i], p[i])
          /\ ~DocShuffles =>
                \A i \in DOMAIN exam.questions : IsDocQuestion(exam.questions[i], i)
    /\ Failed => exam = NoValue

\* C16 witness: a document of two questions that asks for a shuffle, loaded with its
\* second question first.
C16_Witness ==
    /\ Loaded
    /\ DocShuffles
    /\ Len(doc["questions"]) = 2
    /\ IsDocQuestion(exam.questions[1], 2)
    /\ IsDocQuestion(exam.questions[2], 1)
    /\ ~IsDocQuestion(exam.questions[1], 1)

\* The answers mapping without its entries under numbers that no question of the exam
\* carries.
AnswersToQuestions ==
    [n \in {k \in DOMAIN user_answers : Carrying(k) # {}} |-> user_answers[n]]

\* C17: per_question holds one QuestionResult per question of the exam, in the order of
\* the questions: the i-th carries the number, the points and the correct list of the
\* i-th question; an answer under a number that no question carries produces no entry
\* and changes no total.
C17_OneResultPerQuestionInOrder ==
    Graded =>
        /\ Len(result.per_question) = Len(exam.questions)
        /\ \A i \in DOMAIN exam.questions :
              /\ result.per_question[i].question_number = exam.questions[i].number
              /\ result.per_question[i].max_points = exam.questions[i].points
              /\ result.per_question[i].correct_answer = exam.questions[i].correct
        /\ result = grade_exam(exam, AnswersToQuestions)

\* C17 witness: a graded exam of two questions that differ in points and correct list,
\* both numbered 1, with an answer under their number and an answer under the number
\* 2, which no question carries: the results follow the order of the questions.
C17_Witness ==
    /\ Graded
    /\ Len(exam.questions) = 2
    /\ exam.questions[1].points > exam.questions[2].points
    /\ exam.questions[1].correct # exam.questions[2].correct
    /\ DOMAIN user_answers = {1, 2}
    /\ Carrying(1) = {1, 2}
    /\ user_answers[2] # <<>>
    /\ DOMAIN AnswersToQuestions = {1}
    /\ result.per_question[1].max_points = exam.questions[1].points
    /\ result.per_question[2].correct_answer = exam.questions[2].correct
    /\ result.total_points > 0

-----------------------------------------------------------------------------
(* Properties of the command-line runner. *)

\* The last line read is an answer: not blank, and none of n, p, s and g <rest>.
LastCommandIsAnAnswer ==
    /\ Inked(cmd) # {}
    /\ Lower(cmd) \notin {<<"n">>, <<"p">>, <<"s">>}
    /\ ~(Len(cmd) >= 2 /\ Lower(cmd)[1] = "g" /\ cmd[2] = " ")

\* C18: in run_exam, for every exam load_exam returns and every sequence of commands,
\* at every pass of the loop 0 <= idx < len(exam.questions), so that exam.questions[idx]
\* is never out of range; answers are stored under the current index only; and grading
\* is reached only after the command s.
C18_RunnerIndexInRange ==
    /\ pc = "running" => (0 <= idx /\ idx < Len(exam.questions))
    /\ error # IndexError
    /\ pc \in {"running", "answered", "graded"} =>
          \A k \in DOMAIN user_answers : 0 <= k /\ k < Len(exam.questions)
    /\ (pc = "running" /\ LastCommandIsAnAnswer) => idx \in DOMAIN user_answers
    /\ pc \in {"answered", "graded"} => Lower(cmd) = <<"s">>

====
